---------------------------- MODULE Spec2Model ----------------------------
(***************************************************************************)
(* A model of the m-of-n multisignature wallet of                          *)
(* src/intermediate-musig-solution.ts (class MultisigWallet) and of the    *)
(* key-generating wallet of src/advanced-musig.ts (class                   *)
(* BrokenMultisigWallet).                                                  *)
(*                                                                         *)
(* Public keys are byte sequences (Buffers).  The curve, the hash          *)
(* functions and the PSBT container belong to external libraries           *)
(* (tiny-secp256k1, bitcoinjs-lib, bip174); they are modelled by what the  *)
(* wallet observes of them:                                                *)
(*   - isPoint is membership in a fixed set of byte strings;               *)
(*   - an address is a tagged copy of the script it commits to;            *)
(*   - a PSBT input holds the array partialSig, refuses a second           *)
(*     signature of one public key, refuses to sign when the committed     *)
(*     script is not the wallet's script or the input is finalized, and    *)
(*     loses partialSig and its scripts when it is finalized;              *)
(*   - finalizing an input takes exactly m signatures of the script's      *)
(*     keys (more are refused as 'Too many signatures').                   *)
(* The fee-rate ceiling of psbt.extractTransaction is not modelled.        *)
(***************************************************************************)
EXTENDS Integers, Sequences, FiniteSets, Bags, TLC

\* wallet, usedSigners, drafts: a MultisigWallet and the PSBTs it created;
\* call: the last call made and how it ended;
\* pending: the signTransaction calls of concurrent callers, each at its
\* position in the function body;
\* bw: a BrokenMultisigWallet of src/advanced-musig.ts
VARIABLES wallet, usedSigners, drafts, call, pending, bw

vars == <<wallet, usedSigners, drafts, call, pending, bw>>

-----------------------------------------------------------------------------
(* Bounds of the model *)

\* longest publicKeys array handed to the constructor
MaxKeys == 3
\* most drafts created by createTransaction in one behaviour
MaxDrafts == 2
\* most inputs of all drafts of one behaviour together
MaxInputs == 2

-----------------------------------------------------------------------------
(* Initial values of the variables *)

\* the callers that may have a signTransaction call in progress at once
Callers == {1, 2}

\* a caller with no call in progress
IdleCaller == [pc |-> "idle", d |-> 0, signer |-> <<>>, idx |-> -1, value |-> ""]
NoPending == [p \in Callers |-> IdleCaller]

\* an optional field (TypeScript's field?: T) is a sequence of length 0 or 1
Undefined == <<>>

\* no BrokenMultisigWallet constructed yet; calls is the bag of the
\* asynchronous calls that are waiting at an await
NoBroken == [constructed |-> FALSE, requiredSignatures |-> 0, totalSigners |-> 0,
             derivationPath |-> <<>>, keyPairs |-> <<>>,
             redeemScript |-> Undefined, addresses |-> Undefined,
             calls |-> EmptyBag, generated |-> 0]

-----------------------------------------------------------------------------
(* Keys *)

\* compressed points (prefix 02 / 03), shortened to two bytes
KA == <<3, 1>>
KB == <<2, 9>>
KC == <<2, 7>>
\* a valid point that belongs to no wallet of the main specification
KX == <<3, 5>>
\* an uncompressed point (prefix 04): a valid point of another length
KU == <<4, 1, 1>>
\* bytes that are no curve point
KBad == <<5, 1>>

ValidPoints == {KA, KB, KC, KX, KU}

\* tinysecp.isPoint(pubkey)
IsPoint(k) == k \in ValidPoints

\* Buffer.prototype.compare: byte-lexicographic, a proper prefix sorts first
RECURSIVE Compare(_, _)
Compare(a, b) ==
    IF a = <<>> /\ b = <<>> THEN 0
    ELSE IF a = <<>> THEN -1
    ELSE IF b = <<>> THEN 1
    ELSE IF Head(a) < Head(b) THEN -1
    ELSE IF Head(a) > Head(b) THEN 1
    ELSE Compare(Tail(a), Tail(b))

\* insert k into the sorted sequence s, after the elements that compare equal
RECURSIVE Insert(_, _)
Insert(k, s) ==
    IF s = <<>> THEN <<k>>
    ELSE IF Compare(k, Head(s)) < 0 THEN <<k>> \o s
    ELSE <<Head(s)>> \o Insert(k, Tail(s))

RECURSIVE SortFrom(_, _)
SortFrom(keys, acc) ==
    IF keys = <<>> THEN acc ELSE SortFrom(Tail(keys), Insert(Head(keys), acc))

\* a plausible bug: the keys are used in the order given
UnsortedKeys(publicKeys) == publicKeys

\* [...publicKeys].sort((a, b) => a.compare(b)): a stable sort
SortKeys(publicKeys) == SortFrom(publicKeys, <<>>)

-----------------------------------------------------------------------------
(* Script and addresses *)

OP_CHECKMULTISIG == 174

\* script.compile of script.number.encode(x): 1..16 become OP_1..OP_16 (0x51..),
\* any other one-byte number is pushed as data
CompileNumber(x) == IF x \in 1..16 THEN <<80 + x>> ELSE <<1, x>>

\* script.compile of a Buffer chunk: its length, then its bytes
CompilePush(k) == <<Len(k)>> \o k

RECURSIVE CompileKeys(_)
CompileKeys(keys) ==
    IF keys = <<>> THEN <<>> ELSE CompilePush(Head(keys)) \o CompileKeys(Tail(keys))

\* createRedeemScript: OP_M, the sorted keys, OP_N, OP_CHECKMULTISIG
CreateRedeemScript(m, pubkeys, n) ==
    CompileNumber(m) \o CompileKeys(pubkeys) \o CompileNumber(n) \o <<OP_CHECKMULTISIG>>

\* bitcoin.payments.p2sh({redeem: {output}}).address
P2SHAddress(script) == [form |-> "p2sh", commits |-> script]

\* bitcoin.payments.p2wsh({redeem: {output}}).address
P2WSHAddress(script) == [form |-> "p2wsh", commits |-> script]

-----------------------------------------------------------------------------
(* Constructor *)

NoWallet == [m |-> 0, n |-> 0, pubkeys |-> <<>>, redeemScript |-> <<>>,
             p2shAddress |-> P2SHAddress(<<>>), p2wshAddress |-> P2WSHAddress(<<>>)]

ErrNotPositive == "Required signatures must be a positive integer"
ErrEmptyKeys == "Public keys array cannot be empty"
ErrExceeds == "Required signatures cannot exceed number of public keys"
ErrInvalidKey == "Invalid public key at index"

\* requiredSigs is a JavaScript number: it is given in halves (h stands for h/2),
\* so that Number.isInteger has a case to reject
IsInteger(h) == h % 2 = 0

\* index of the first key that is not a Buffer holding a curve point, 0 if none
FirstInvalid(publicKeys) ==
    IF \E i \in 1..Len(publicKeys) : ~IsPoint(publicKeys[i])
    THEN CHOOSE i \in 1..Len(publicKeys) :
            /\ ~IsPoint(publicKeys[i])
            /\ \A j \in 1..(i - 1) : IsPoint(publicKeys[j])
    ELSE 0

\* a plausible bug: the threshold is not compared with the number of keys
ConstructorErrorNoExceeds(h, publicKeys) ==
    IF ~IsInteger(h) \/ h <= 0 THEN ErrNotPositive
    ELSE IF Len(publicKeys) = 0 THEN ErrEmptyKeys
    ELSE IF FirstInvalid(publicKeys) # 0 THEN ErrInvalidKey
    ELSE ""

\* the validation of the constructor: the error it throws, "" if none
ConstructorError(h, publicKeys) ==
    IF ~IsInteger(h) \/ h <= 0 THEN ErrNotPositive
    ELSE IF Len(publicKeys) = 0 THEN ErrEmptyKeys
    ELSE IF h > 2 * Len(publicKeys) THEN ErrExceeds
    ELSE IF FirstInvalid(publicKeys) # 0 THEN ErrInvalidKey
    ELSE ""

\* the fields the constructor sets when nothing throws
NewWallet(requiredSigs, publicKeys) ==
    LET keys == SortKeys(publicKeys)
        script == CreateRedeemScript(requiredSigs, keys, Len(publicKeys))
    IN [m |-> requiredSigs, n |-> Len(publicKeys), pubkeys |-> keys,
        redeemScript |-> script,
        p2shAddress |-> P2SHAddress(script),
        p2wshAddress |-> P2WSHAddress(script)]

ErrUncompressed == "redeem.input or redeem.output contains uncompressed pubkey"
ErrAddresses == "Failed to generate addresses"

\* a public key in uncompressed form (prefix 04)
IsUncompressed(k) == k[1] = 4

\* p2sh.address / p2wsh.address is present
HasAddress(address) == address.form # ""

\* what follows the validation: bitcoin.payments.p2wsh refuses a redeem script
\* that holds an uncompressed public key, and the constructor throws when an
\* address is missing; "" if nothing throws
PaymentsError(h, publicKeys) ==
    LET w == NewWallet(h \div 2, publicKeys)
    IN IF \E i \in 1..Len(publicKeys) : IsUncompressed(publicKeys[i])
       THEN ErrUncompressed
       ELSE IF ~HasAddress(w.p2shAddress) \/ ~HasAddress(w.p2wshAddress)
       THEN ErrAddresses
       ELSE ""

\* the error new MultisigWallet(requiredSigs, publicKeys) throws, "" if none
ConstructionError(h, publicKeys) ==
    IF ConstructorError(h, publicKeys) # "" THEN ConstructorError(h, publicKeys)
    ELSE PaymentsError(h, publicKeys)

-----------------------------------------------------------------------------
(* Drafts (PSBTs) *)

SIGHASH_ALL == 1

\* utxo.scriptPubKey in witness-script-hash form: "0020", then the hash of a script
WitnessSpk(script) == [form |-> "0020", commits |-> script, parsesAsTx |-> FALSE]

\* utxo.scriptPubKey of any other form; parsesAsTx tells whether
\* Transaction.fromBuffer accepts its bytes, as psbt.addInput requires of a
\* nonWitnessUtxo
LegacySpk(script, parsesAsTx) ==
    [form |-> "a914", commits |-> script, parsesAsTx |-> parsesAsTx]

\* utxo.scriptPubKey.startsWith("0020")
StartsWith0020(spk) == spk.form = "0020"

\* address validation of the bitcoin-address-validation package, on testnet
ValidAddresses == {"tb1qw508d6qejxtdg4y5r3zarvary0c5xw7kxpjzsx"}
Validate(address) == address \in ValidAddresses

RECURSIVE SumValues(_)
SumValues(items) ==
    IF items = <<>> THEN 0 ELSE Head(items).value + SumValues(Tail(items))

ErrNoUtxos == "UTXOs array cannot be empty"
ErrNoOutputs == "Outputs array cannot be empty"
ErrNegativeFee == "Fee cannot be negative"
ErrFunds == "Insufficient funds for transaction"
ErrAddress == "Invalid address"
ErrOutputValue == "Output value must be positive"
ErrNonWitnessUtxo == "nonWitnessUtxo is not a transaction"

\* the error of the first UTXO psbt.addInput refuses in the utxos.forEach
\* loop, "" if none
RECURSIVE InputsError(_)
InputsError(utxos) ==
    IF utxos = <<>> THEN ""
    ELSE IF ~StartsWith0020(Head(utxos).scriptPubKey)
            /\ ~Head(utxos).scriptPubKey.parsesAsTx THEN ErrNonWitnessUtxo
    ELSE InputsError(Tail(utxos))

\* the outputs.forEach loop without its check of the output's value
RECURSIVE OutputsErrorNoValueCheck(_)
OutputsErrorNoValueCheck(outputs) ==
    IF outputs = <<>> THEN ""
    ELSE IF ~Validate(Head(outputs).address) THEN ErrAddress
    ELSE OutputsErrorNoValueCheck(Tail(outputs))

\* the error of the first output the outputs.forEach loop refuses, "" if none
RECURSIVE OutputsError(_)
OutputsError(outputs) ==
    IF outputs = <<>> THEN ""
    ELSE IF ~Validate(Head(outputs).address) THEN ErrAddress
    ELSE IF Head(outputs).value <= 0 THEN ErrOutputValue
    ELSE OutputsError(Tail(outputs))

\* the error createTransaction throws, "" if none
CreateTransactionError(utxos, outputs, fee) ==
    IF Len(utxos) = 0 THEN ErrNoUtxos
    ELSE IF Len(outputs) = 0 THEN ErrNoOutputs
    ELSE IF fee < 0 THEN ErrNegativeFee
    ELSE IF SumValues(utxos) < SumValues(outputs) + fee THEN ErrFunds
    ELSE IF InputsError(utxos) # "" THEN InputsError(utxos)
    ELSE OutputsError(outputs)

\* psbt.addInput(inputData) with every UTXO taken for a witness UTXO
NewInputAlwaysWitness(w, utxo) ==
    [form |-> "witnessUtxo",
     commits |-> utxo.scriptPubKey.commits,
     value |-> <<utxo.value>>,
     redeemScript |-> w.redeemScript,
     partialSig |-> <<>>,
     finalized |-> FALSE,
     finalScript |-> <<>>]

\* psbt.addInput(inputData): the input carries the wallet's script as
\* redeemScript and witnessScript, and the UTXO in one of two forms: as
\* witnessUtxo, the script and utxo.value, or as nonWitnessUtxo, the bytes of
\* scriptPubKey alone (utxo.value is not stored, value is Undefined)
NewInput(w, utxo) ==
    [form |-> IF StartsWith0020(utxo.scriptPubKey) THEN "witnessUtxo" ELSE "nonWitnessUtxo",
     commits |-> utxo.scriptPubKey.commits,
     value |-> IF StartsWith0020(utxo.scriptPubKey) THEN <<utxo.value>> ELSE Undefined,
     redeemScript |-> w.redeemScript,
     partialSig |-> <<>>,
     finalized |-> FALSE,
     finalScript |-> <<>>]

\* the PSBT createTransaction returns
NewDraft(w, utxos, outputs) ==
    [inputs |-> [i \in 1..Len(utxos) |-> NewInput(w, utxos[i])],
     outputs |-> outputs]

-----------------------------------------------------------------------------
(* Signing *)

ErrNotSigner == "Signer is not part of the multisig setup"
ErrAlreadySigned == "This key has already signed"

\* this.pubkeys.some((p) => hex(p) === pubkey)
IsWalletKey(w, k) == \E i \in 1..Len(w.pubkeys) : w.pubkeys[i] = k

HasSigOf(input, k) == \E i \in 1..Len(input.partialSig) : input.partialSig[i].pubkey = k

\* psbt.signInput taking a second signature of one key into partialSig
SignInputThrowsAllowsDuplicate(w, draft, inputIndex, k) ==
    \/ inputIndex < 0
    \/ inputIndex >= Len(draft.inputs)
    \/ LET input == draft.inputs[inputIndex + 1]
       IN \/ input.finalized
          \/ input.commits # input.redeemScript
          \/ ~IsWalletKey(w, k)

\* psbt.signInput(inputIndex, keyPair, [SIGHASH_ALL]) throws: there is no such
\* input, the input is finalized (its scripts are gone), the script the UTXO
\* commits to is not the input's script, the key is not in that script, or
\* partialSig already holds a signature of the key
SignInputThrows(w, draft, inputIndex, k) ==
    \/ inputIndex < 0
    \/ inputIndex >= Len(draft.inputs)
    \/ LET input == draft.inputs[inputIndex + 1]
       IN \/ input.finalized
          \/ input.commits # input.redeemScript
          \/ ~IsWalletKey(w, k)
          \/ HasSigOf(input, k)

\* the draft after psbt.signInput has added the partial signature
SignInput(draft, inputIndex, k) ==
    [draft EXCEPT !.inputs[inputIndex + 1].partialSig =
        Append(@, [pubkey |-> k, hashType |-> SIGHASH_ALL])]

-----------------------------------------------------------------------------
(* Verification and finalization *)

ErrVerification == "Transaction verification failed"
ErrFinalization == "Transaction finalization failed"

\* the loop over input.partialSig, signers being the Set built so far
RECURSIVE SigsPass(_, _, _)
SigsPass(w, sigs, signers) ==
    IF sigs = <<>> THEN TRUE
    ELSE LET pubkeyHex == Head(sigs).pubkey
         IN IF pubkeyHex \in signers THEN FALSE
            ELSE IF ~IsWalletKey(w, pubkeyHex) THEN FALSE
            ELSE SigsPass(w, Tail(sigs), signers \cup {pubkeyHex})

\* one turn of the loop over the inputs; a finalized input has no partialSig
InputPasses(w, input) ==
    IF input.finalized \/ Len(input.partialSig) < w.m THEN FALSE
    ELSE SigsPass(w, input.partialSig, {})

RECURSIVE InputsPass(_, _)
InputsPass(w, inputs) ==
    IF inputs = <<>> THEN TRUE
    ELSE IF ~InputPasses(w, Head(inputs)) THEN FALSE
    ELSE InputsPass(w, Tail(inputs))

\* a plausible bug: the signers are counted but not checked against the key set
RECURSIVE SigsPassAnySigner(_, _, _)
SigsPassAnySigner(w, sigs, signers) ==
    IF sigs = <<>> THEN TRUE
    ELSE IF Head(sigs).pubkey \in signers THEN FALSE
    ELSE SigsPassAnySigner(w, Tail(sigs), signers \cup {Head(sigs).pubkey})

VerifyAnySigner(w, draft) ==
    \A i \in 1..Len(draft.inputs) :
        /\ ~draft.inputs[i].finalized
        /\ Len(draft.inputs[i].partialSig) >= w.m
        /\ SigsPassAnySigner(w, draft.inputs[i].partialSig, {})

\* verifyTransaction(psbt)
VerifyTransaction(w, draft) == InputsPass(w, draft.inputs)

\* the signatures of the script's keys, in the order of the keys in the script
SigsInKeyOrder(w, input) == SelectSeq(w.pubkeys, LAMBDA k : HasSigOf(input, k))

\* psbt.finalizeInput throws: the input is finalized already, or the number of
\* signatures of the script's keys is not exactly m
FinalizeInputThrows(w, input) ==
    \/ input.finalized
    \/ Len(SigsInKeyOrder(w, input)) # w.m

\* psbt.finalizeInput: the final script takes the signatures, and partialSig
\* and the scripts are removed from the input
FinalizeInput(w, input) ==
    [input EXCEPT !.finalScript = SigsInKeyOrder(w, input),
                  !.partialSig = <<>>,
                  !.redeemScript = <<>>,
                  !.finalized = TRUE]

\* psbt.finalizeAllInputs(): the inputs in order, stopping at the first that
\* throws; the inputs before it stay finalized
RECURSIVE FinalizeFrom(_, _, _)
FinalizeFrom(w, inputs, i) ==
    IF i > Len(inputs) THEN [inputs |-> inputs, threw |-> FALSE]
    ELSE IF FinalizeInputThrows(w, inputs[i]) THEN [inputs |-> inputs, threw |-> TRUE]
    ELSE FinalizeFrom(w, [inputs EXCEPT ![i] = FinalizeInput(w, inputs[i])], i + 1)

FinalizeAllInputs(w, draft) == FinalizeFrom(w, draft.inputs, 1)

\* psbt.extractTransaction().toHex() of a draft whose inputs are all finalized
ToHex(draft) ==
    [ins |-> [i \in 1..Len(draft.inputs) |-> draft.inputs[i].finalScript],
     outs |-> draft.outputs]

\* the last call made on the wallet and how it ended: kind is "return" or
\* "throw", value the returned value or the error's message
NoCall == [op |-> "none", requiredSigs |-> 0, publicKeys |-> <<>>, d |-> 0,
           signer |-> <<>>, idx |-> -1, kind |-> "none", value |-> "",
           hex |-> [ins |-> <<>>, outs |-> <<>>],
           utxos |-> <<>>, outputs |-> <<>>, fee |-> 0,
           totalSigners |-> 0, path |-> <<>>, mnemonic |-> 0,
           keyPair |-> <<>>, addresses |-> <<>>, script |-> <<>>,
           hashType |-> 0]

\* what a caller may hand to the constructor
RequiredSigsInputs == (-2) .. (2 * MaxKeys + 2)

RECURSIVE SeqsUpTo(_, _)
SeqsUpTo(S, len) ==
    IF len = 0 THEN {<<>>}
    ELSE LET shorter == SeqsUpTo(S, len - 1)
         IN shorter \cup {Append(q, x) : q \in {r \in shorter : Len(r) = len - 1}, x \in S}

PublicKeysInputs == SeqsUpTo(ValidPoints \cup {KBad}, MaxKeys)

\* new MultisigWallet(requiredSigs, publicKeys), requiredSigs = h/2
Construct(h, publicKeys) ==
    /\ call.op = "none"
    /\ LET e == ConstructionError(h, publicKeys)
           c == [NoCall EXCEPT !.op = "constructor", !.requiredSigs = h,
                               !.publicKeys = publicKeys]
       IN IF e # ""
          THEN /\ wallet' = NoWallet
               /\ usedSigners' = {}
               /\ call' = [c EXCEPT !.kind = "throw", !.value = e,
                                    !.idx = IF e = ErrInvalidKey
                                            THEN FirstInvalid(publicKeys) - 1
                                            ELSE -1]
          ELSE /\ wallet' = NewWallet(h \div 2, publicKeys)
               /\ usedSigners' = {}
               /\ call' = [c EXCEPT !.kind = "return"]
    /\ UNCHANGED drafts
    /\ UNCHANGED <<pending, bw>>

InitCtor ==
    /\ wallet = NoWallet
    /\ usedSigners = {}
    /\ drafts = <<>>
    /\ call = NoCall
    /\ pending = NoPending
    /\ bw = NoBroken

NextCtor == \E h \in RequiredSigsInputs, publicKeys \in PublicKeysInputs :
                Construct(h, publicKeys)

SpecCtor == InitCtor /\ [][NextCtor]_vars

-----------------------------------------------------------------------------
(* The operations of a constructed wallet *)

RECURSIVE TotalInputs(_)
TotalInputs(ds) ==
    IF ds = <<>> THEN 0 ELSE Len(Head(ds).inputs) + TotalInputs(Tail(ds))

\* createTransaction(utxos, outputs, fee)
CreateTransaction(utxos, outputs, fee) ==
    /\ wallet # NoWallet
    /\ Len(drafts) < MaxDrafts
    /\ TotalInputs(drafts) + Len(utxos) <= MaxInputs
    /\ LET e == CreateTransactionError(utxos, outputs, fee)
           c == [NoCall EXCEPT !.op = "createTransaction", !.utxos = utxos,
                               !.outputs = outputs, !.fee = fee]
       IN IF e # ""
          THEN /\ drafts' = drafts
               /\ call' = [c EXCEPT !.kind = "throw", !.value = e]
          ELSE /\ drafts' = Append(drafts, NewDraft(wallet, utxos, outputs))
               /\ call' = [c EXCEPT !.kind = "return", !.d = Len(drafts) + 1]
    /\ UNCHANGED <<wallet, usedSigners>>
    /\ UNCHANGED <<pending, bw>>

\* a plausible bug: the used-signer set is not consulted
SignTransactionNoDuplicateCheck(d, signer, inputIndex) ==
    /\ wallet # NoWallet
    /\ d \in 1..Len(drafts)
    /\ LET c == [NoCall EXCEPT !.op = "signTransaction", !.d = d,
                               !.signer = signer, !.idx = inputIndex]
       IN IF ~IsWalletKey(wallet, signer)
          THEN /\ call' = [c EXCEPT !.kind = "throw", !.value = ErrNotSigner]
               /\ UNCHANGED <<drafts, usedSigners>>
          ELSE IF SignInputThrows(wallet, drafts[d], inputIndex, signer)
          THEN /\ call' = [c EXCEPT !.kind = "return", !.value = "false"]
               /\ UNCHANGED <<drafts, usedSigners>>
          ELSE /\ drafts' = [drafts EXCEPT ![d] = SignInput(@, inputIndex, signer)]
               /\ usedSigners' = usedSigners \cup {signer}
               /\ call' = [c EXCEPT !.kind = "return", !.value = "true"]
    /\ UNCHANGED wallet
    /\ UNCHANGED <<pending, bw>>

\* a plausible bug: the signer is not looked up in the key set
SignTransactionNoAuthorization(d, signer, inputIndex) ==
    /\ wallet # NoWallet
    /\ d \in 1..Len(drafts)
    /\ LET c == [NoCall EXCEPT !.op = "signTransaction", !.d = d,
                               !.signer = signer, !.idx = inputIndex]
       IN IF signer \in usedSigners
          THEN /\ call' = [c EXCEPT !.kind = "throw", !.value = ErrAlreadySigned]
               /\ UNCHANGED <<drafts, usedSigners>>
          ELSE IF SignInputThrows(wallet, drafts[d], inputIndex, signer)
          THEN /\ call' = [c EXCEPT !.kind = "return", !.value = "false"]
               /\ UNCHANGED <<drafts, usedSigners>>
          ELSE /\ drafts' = [drafts EXCEPT ![d] = SignInput(@, inputIndex, signer)]
               /\ usedSigners' = usedSigners \cup {signer}
               /\ call' = [c EXCEPT !.kind = "return", !.value = "true"]
    /\ UNCHANGED wallet
    /\ UNCHANGED <<pending, bw>>

\* a plausible bug: the catch block reports success
SignTransactionCatchTrue(d, signer, inputIndex) ==
    /\ wallet # NoWallet
    /\ d \in 1..Len(drafts)
    /\ LET c == [NoCall EXCEPT !.op = "signTransaction", !.d = d,
                               !.signer = signer, !.idx = inputIndex]
       IN IF ~IsWalletKey(wallet, signer)
          THEN /\ call' = [c EXCEPT !.kind = "throw", !.value = ErrNotSigner]
               /\ UNCHANGED <<drafts, usedSigners>>
          ELSE IF signer \in usedSigners
          THEN /\ call' = [c EXCEPT !.kind = "throw", !.value = ErrAlreadySigned]
               /\ UNCHANGED <<drafts, usedSigners>>
          ELSE IF SignInputThrows(wallet, drafts[d], inputIndex, signer)
          THEN /\ call' = [c EXCEPT !.kind = "return", !.value = "true"]
               /\ UNCHANGED <<drafts, usedSigners>>
          ELSE /\ drafts' = [drafts EXCEPT ![d] = SignInput(@, inputIndex, signer)]
               /\ usedSigners' = usedSigners \cup {signer}
               /\ call' = [c EXCEPT !.kind = "return", !.value = "true"]
    /\ UNCHANGED wallet
    /\ UNCHANGED <<pending, bw>>

\* signTransaction recording the signer before psbt.signInput is tried
SignTransactionMarksFirst(d, signer, inputIndex) ==
    /\ wallet # NoWallet
    /\ d \in 1..Len(drafts)
    /\ LET c == [NoCall EXCEPT !.op = "signTransaction", !.d = d,
                               !.signer = signer, !.idx = inputIndex]
       IN IF ~IsWalletKey(wallet, signer)
          THEN /\ call' = [c EXCEPT !.kind = "throw", !.value = ErrNotSigner]
               /\ UNCHANGED <<drafts, usedSigners>>
          ELSE IF signer \in usedSigners
          THEN /\ call' = [c EXCEPT !.kind = "throw", !.value = ErrAlreadySigned]
               /\ UNCHANGED <<drafts, usedSigners>>
          ELSE IF SignInputThrows(wallet, drafts[d], inputIndex, signer)
          THEN /\ call' = [c EXCEPT !.kind = "return", !.value = "false"]
               /\ usedSigners' = usedSigners \cup {signer}
               /\ UNCHANGED drafts
          ELSE /\ drafts' = [drafts EXCEPT ![d] = SignInput(@, inputIndex, signer)]
               /\ usedSigners' = usedSigners \cup {signer}
               /\ call' = [c EXCEPT !.kind = "return", !.value = "true"]
    /\ UNCHANGED wallet
    /\ UNCHANGED <<pending, bw>>

\* signTransaction(psbt, keyPair, inputIndex): psbt is draft d, keyPair the key
\* pair whose public key is signer
SignTransaction(d, signer, inputIndex) ==
    /\ wallet # NoWallet
    /\ d \in 1..Len(drafts)
    /\ LET c == [NoCall EXCEPT !.op = "signTransaction", !.d = d,
                               !.signer = signer, !.idx = inputIndex]
       IN IF ~IsWalletKey(wallet, signer)
          THEN /\ call' = [c EXCEPT !.kind = "throw", !.value = ErrNotSigner]
               /\ UNCHANGED <<drafts, usedSigners>>
          ELSE IF signer \in usedSigners
          THEN /\ call' = [c EXCEPT !.kind = "throw", !.value = ErrAlreadySigned]
               /\ UNCHANGED <<drafts, usedSigners>>
          ELSE IF SignInputThrows(wallet, drafts[d], inputIndex, signer)
          THEN /\ call' = [c EXCEPT !.kind = "return", !.value = "false"]
               /\ UNCHANGED <<drafts, usedSigners>>
          ELSE /\ drafts' = [drafts EXCEPT ![d] = SignInput(@, inputIndex, signer)]
               /\ usedSigners' = usedSigners \cup {signer}
               /\ call' = [c EXCEPT !.kind = "return", !.value = "true"]
    /\ UNCHANGED wallet
    /\ UNCHANGED <<pending, bw>>

\* verifyTransaction(psbt) on draft d
Verify(d) ==
    /\ wallet # NoWallet
    /\ d \in 1..Len(drafts)
    /\ call' = [NoCall EXCEPT !.op = "verifyTransaction", !.d = d, !.kind = "return",
                              !.value = IF VerifyTransaction(wallet, drafts[d])
                                        THEN "true" ELSE "false"]
    /\ UNCHANGED <<wallet, usedSigners, drafts>>
    /\ UNCHANGED <<pending, bw>>

\* a plausible bug: the draft is finalized without being verified
FinalizeTransactionUnverified(d) ==
    /\ wallet # NoWallet
    /\ d \in 1..Len(drafts)
    /\ LET c == [NoCall EXCEPT !.op = "finalizeTransaction", !.d = d]
           done == FinalizeAllInputs(wallet, drafts[d])
           after == [drafts[d] EXCEPT !.inputs = done.inputs]
       IN /\ drafts' = [drafts EXCEPT ![d] = after]
          /\ call' = IF done.threw
                     THEN [c EXCEPT !.kind = "throw", !.value = ErrFinalization]
                     ELSE [c EXCEPT !.kind = "return", !.value = "hex",
                                    !.hex = ToHex(after)]
    /\ UNCHANGED <<wallet, usedSigners>>
    /\ UNCHANGED <<pending, bw>>

\* finalizeTransaction clearing the tracking set once the draft is finalized
FinalizeTransactionClears(d) ==
    /\ wallet # NoWallet
    /\ d \in 1..Len(drafts)
    /\ LET c == [NoCall EXCEPT !.op = "finalizeTransaction", !.d = d]
           done == FinalizeAllInputs(wallet, drafts[d])
           after == [drafts[d] EXCEPT !.inputs = done.inputs]
       IN IF ~VerifyTransaction(wallet, drafts[d])
          THEN /\ drafts' = drafts
               /\ usedSigners' = usedSigners
               /\ call' = [c EXCEPT !.kind = "throw", !.value = ErrVerification]
          ELSE /\ drafts' = [drafts EXCEPT ![d] = after]
               /\ usedSigners' = IF done.threw THEN usedSigners ELSE {}
               /\ call' = IF done.threw
                          THEN [c EXCEPT !.kind = "throw", !.value = ErrFinalization]
                          ELSE [c EXCEPT !.kind = "return", !.value = "hex",
                                         !.hex = ToHex(after)]
    /\ UNCHANGED wallet
    /\ UNCHANGED <<pending, bw>>

\* finalizeTransaction(psbt) on draft d
FinalizeTransaction(d) ==
    /\ wallet # NoWallet
    /\ d \in 1..Len(drafts)
    /\ LET c == [NoCall EXCEPT !.op = "finalizeTransaction", !.d = d]
           done == FinalizeAllInputs(wallet, drafts[d])
           after == [drafts[d] EXCEPT !.inputs = done.inputs]
       IN IF ~VerifyTransaction(wallet, drafts[d])
          THEN /\ drafts' = drafts
               /\ call' = [c EXCEPT !.kind = "throw", !.value = ErrVerification]
          ELSE /\ drafts' = [drafts EXCEPT ![d] = after]
               /\ call' = IF done.threw
                          THEN [c EXCEPT !.kind = "throw", !.value = ErrFinalization]
                          ELSE [c EXCEPT !.kind = "return", !.value = "hex",
                                         !.hex = ToHex(after)]
    /\ UNCHANGED <<wallet, usedSigners>>
    /\ UNCHANGED <<pending, bw>>

\* a plausible bug: the tracking set is left as it is
ResetSignersKeeps ==
    /\ wallet # NoWallet
    /\ call' = [NoCall EXCEPT !.op = "resetSigners", !.kind = "return"]
    /\ UNCHANGED <<wallet, usedSigners, drafts>>
    /\ UNCHANGED <<pending, bw>>

\* resetSigners()
ResetSigners ==
    /\ wallet # NoWallet
    /\ usedSigners' = {}
    /\ call' = [NoCall EXCEPT !.op = "resetSigners", !.kind = "return"]
    /\ UNCHANGED <<wallet, drafts>>
    /\ UNCHANGED <<pending, bw>>

-----------------------------------------------------------------------------
(* The wallet in use *)

\* the wallets of the main specification: (m, publicKeys as given)
WalletConfigs == {<<1, <<KA, KB>>>>, <<2, <<KA, KB>>>>}

\* the key pairs a caller may sign with: the wallet's and a stranger's
Signers == {KA, KB, KX}

\* the UTXOs a caller may spend: outputs paying to the wallet's script
UtxoChoices(w) ==
    {[value |-> 5, scriptPubKey |-> WitnessSpk(w.redeemScript)]}

OutputChoices ==
    {[address |-> "tb1qw508d6qejxtdg4y5r3zarvary0c5xw7kxpjzsx", value |-> 2],
     [address |-> "not an address", value |-> 2],
     [address |-> "tb1qw508d6qejxtdg4y5r3zarvary0c5xw7kxpjzsx", value |-> 0]}

FeeChoices == {-1, 1}

Init ==
    /\ \E cfg \in WalletConfigs :
          /\ ConstructionError(2 * cfg[1], cfg[2]) = ""
          /\ wallet = NewWallet(cfg[1], cfg[2])
    /\ usedSigners = {}
    /\ drafts = <<>>
    /\ call = NoCall
    /\ pending = NoPending
    /\ bw = NoBroken

Next ==
    \/ \E utxos \in SeqsUpTo(UtxoChoices(wallet), MaxInputs),
          outputs \in SeqsUpTo(OutputChoices, 1),
          fee \in FeeChoices :
            CreateTransaction(utxos, outputs, fee)
    \/ \E d \in 1..MaxDrafts, signer \in Signers, inputIndex \in 0..MaxInputs :
            SignTransaction(d, signer, inputIndex)
    \/ \E d \in 1..MaxDrafts : Verify(d)
    \/ \E d \in 1..MaxDrafts : FinalizeTransaction(d)
    \/ ResetSigners

Spec == Init /\ [][Next]_vars

-----------------------------------------------------------------------------
(* createTransaction as a function of its arguments *)

\* most outputs handed to one createTransaction call
MaxOutputs == 2

\* the UTXOs handed to createTransaction: outputs paying to the wallet's
\* script, of two values, in witness-script-hash form and in another form,
\* given as bytes that are a transaction or are none
UtxoInputs(w) ==
    {[value |-> v, scriptPubKey |-> WitnessSpk(w.redeemScript)] : v \in {3, 5}}
    \cup {[value |-> v, scriptPubKey |-> LegacySpk(w.redeemScript, t)] :
            v \in {3, 5}, t \in BOOLEAN}

\* the outputs handed to createTransaction: valid and invalid addresses,
\* positive, zero and negative values
OutputInputs ==
    {[address |-> a, value |-> v] :
        a \in {"tb1qw508d6qejxtdg4y5r3zarvary0c5xw7kxpjzsx", "not an address"},
        v \in {-3, 0, 2, 4}}

FeeInputs == {-1, 0, 1, 4}

InitCreate == Init

NextCreate ==
    /\ call.op = "none"
    /\ \E utxos \in SeqsUpTo(UtxoInputs(wallet), MaxInputs),
          outputs \in SeqsUpTo(OutputInputs, MaxOutputs),
          fee \in FeeInputs :
            CreateTransaction(utxos, outputs, fee)

SpecCreate == InitCreate /\ [][NextCreate]_vars

-----------------------------------------------------------------------------
(* verifyTransaction as a function of the draft it is given *)

\* a signature as psbt.signInput records it
SigOf(k) == [pubkey |-> k, hashType |-> SIGHASH_ALL]

\* the partialSig arrays a PSBT input can hold: one signature per public key,
\* of the wallet's keys or of others, in any order
PartialSigs ==
    {sigs \in SeqsUpTo({SigOf(k) : k \in Signers}, Cardinality(Signers)) :
        \A i, j \in 1..Len(sigs) : i # j => sigs[i] # sigs[j]}

\* the inputs a draft handed to verifyTransaction can hold
InputChoices(w) ==
    LET fresh == NewInput(w, [value |-> 5, scriptPubKey |-> WitnessSpk(w.redeemScript)])
        signed == {[fresh EXCEPT !.partialSig = sigs] : sigs \in PartialSigs}
    IN signed \cup {FinalizeInput(w, input) :
                      input \in {s \in signed : ~FinalizeInputThrows(w, s)}}

InitVerify ==
    /\ \E cfg \in WalletConfigs : wallet = NewWallet(cfg[1], cfg[2])
    /\ usedSigners = {}
    /\ \E inputs \in SeqsUpTo(InputChoices(wallet), MaxInputs) :
          /\ inputs # <<>>
          /\ drafts = <<[inputs |-> inputs,
                         outputs |-> <<[address |-> "tb1qw508d6qejxtdg4y5r3zarvary0c5xw7kxpjzsx",
                                        value |-> 2]>>]>>
    /\ call = NoCall
    /\ pending = NoPending
    /\ bw = NoBroken

NextVerify == \E d \in 1..MaxDrafts : Verify(d)

SpecVerify == InitVerify /\ [][NextVerify]_vars

-----------------------------------------------------------------------------
(* Claims about the constructor, checked under SpecCtor *)

Constructed == call.op = "constructor" /\ call.kind = "return"

\* C8: the constructor throws when requiredSigs is not a positive integer, when
\* publicKeys is empty and when requiredSigs exceeds the number of keys; so a
\* constructed wallet has 1 <= m <= n = |pubkeys|
C8_ThresholdWithinKeys ==
    call.op = "constructor" =>
        /\ ( \/ ~IsInteger(call.requiredSigs)
             \/ call.requiredSigs <= 0
             \/ Len(call.publicKeys) = 0
             \/ call.requiredSigs > 2 * Len(call.publicKeys) )
           => (call.kind = "throw" /\ wallet = NoWallet)
        /\ call.kind = "return" =>
             /\ 1 <= wallet.m
             /\ wallet.m <= wallet.n
             /\ wallet.n = Len(wallet.pubkeys)
             /\ wallet.n = Len(call.publicKeys)
             /\ 2 * wallet.m = call.requiredSigs

\* a threshold above the number of (valid) keys has been refused
C8_Witness ==
    /\ call.op = "constructor"
    /\ call.kind = "throw"
    /\ call.value = ErrExceeds
    /\ call.requiredSigs = 2 * (Len(call.publicKeys) + 1)
    /\ \A i \in 1..Len(call.publicKeys) : IsPoint(call.publicKeys[i])

HasDuplicates(keys) == \E i, j \in 1..Len(keys) : i # j /\ keys[i] = keys[j]

\* C9: the constructor throws when publicKeys holds the same key twice, so the
\* ordered key set of a constructed wallet has no duplicate
C9_DuplicateKeysRejected ==
    /\ (call.op = "constructor" /\ HasDuplicates(call.publicKeys)) => call.kind = "throw"
    /\ Constructed => ~HasDuplicates(wallet.pubkeys)

\* every reordering of the array keys
Reorderings(keys) ==
    {[i \in 1..Len(keys) |-> keys[f[i]]] : f \in Permutations(1..Len(keys))}

\* C10: the keys of a constructed wallet are in byte-lexicographic order, and
\* its redeem script and both addresses are those of the wallet constructed
\* from any permutation of the same key array
C10_PermutationInvariant ==
    Constructed =>
        /\ \A i, j \in 1..Len(wallet.pubkeys) :
              i < j => Compare(wallet.pubkeys[i], wallet.pubkeys[j]) <= 0
        /\ \A p \in Reorderings(call.publicKeys) :
              LET w == NewWallet(call.requiredSigs \div 2, p)
              IN /\ w.redeemScript = wallet.redeemScript
                 /\ w.p2shAddress = wallet.p2shAddress
                 /\ w.p2wshAddress = wallet.p2wshAddress

\* a wallet was constructed from three distinct keys given out of order
C10_Witness ==
    /\ Constructed
    /\ Len(call.publicKeys) = 3
    /\ ~HasDuplicates(call.publicKeys)
    /\ call.publicKeys # wallet.pubkeys

-----------------------------------------------------------------------------
(* Claims about signing, verification and finalization *)

SignersOf(input) == {input.partialSig[i].pubkey : i \in 1..Len(input.partialSig)}

\* the distinct signers of the wallet's key set that contributed to the input
AuthorizedSignersOf(w, input) == {k \in SignersOf(input) : IsWalletKey(w, k)}

AllFinalized(draft) == \A i \in 1..Len(draft.inputs) : draft.inputs[i].finalized

\* C1: a successful signTransaction puts its signer in the used-signer set, only
\* resetSigners takes a signer out of it, and a signTransaction call by a signer
\* in the set throws 'This key has already signed' and records nothing, on any
\* draft and any input index
C1_DuplicateSignerRejected ==
    [][ /\ (call'.op = "signTransaction" /\ call'.value = "true")
            => call'.signer \in usedSigners'
        /\ call'.op # "resetSigners" => usedSigners \subseteq usedSigners'
        /\ (call'.op = "signTransaction" /\ call'.signer \in usedSigners)
            => /\ call'.kind = "throw"
               /\ call'.value = ErrAlreadySigned
               /\ drafts' = drafts
               /\ usedSigners' = usedSigners ]_vars

\* a signer who signed one draft has been refused on another draft
C1_Witness ==
    /\ call.op = "signTransaction"
    /\ call.value = ErrAlreadySigned
    /\ \E d \in 1..Len(drafts) :
          /\ d # call.d
          /\ \E i \in 1..Len(drafts[d].inputs) : HasSigOf(drafts[d].inputs[i], call.signer)

\* C2 as claimed: verifyTransaction returns false when some input has fewer than
\* m distinct authorized contributions, and true when every input has at least m
C2_VerifyCountsAuthorized ==
    call.op = "verifyTransaction" =>
        LET inputs == drafts[call.d].inputs
        IN /\ (\E i \in 1..Len(inputs) :
                  Cardinality(AuthorizedSignersOf(wallet, inputs[i])) < wallet.m)
               => call.value = "false"
           /\ (\A i \in 1..Len(inputs) :
                  Cardinality(AuthorizedSignersOf(wallet, inputs[i])) >= wallet.m)
               => call.value = "true"

\* C2 as amended: verifyTransaction returns true exactly when every input holds
\* at least m contributions and every contribution is by a distinct signer of
\* the key set; so it returns false when some input has fewer than m distinct
\* authorized contributions; it changes neither the draft nor the wallet
C2_VerifyExact ==
    [][ call'.op = "verifyTransaction" =>
          LET inputs == drafts[call'.d].inputs
          IN /\ drafts' = drafts
             /\ wallet' = wallet
             /\ usedSigners' = usedSigners
             /\ call'.kind = "return"
             /\ call'.value = "true" <=>
                  \A i \in 1..Len(inputs) :
                      /\ Len(inputs[i].partialSig) >= wallet.m
                      /\ Cardinality(SignersOf(inputs[i])) = Len(inputs[i].partialSig)
                      /\ SignersOf(inputs[i]) = AuthorizedSignersOf(wallet, inputs[i])
             /\ (\E i \in 1..Len(inputs) :
                    Cardinality(AuthorizedSignersOf(wallet, inputs[i])) < wallet.m)
                 => call'.value = "false" ]_vars

\* verifyTransaction has refused a draft whose inputs all hold m distinct
\* authorized contributions, one of them holding a stranger's as well
C2_Witness ==
    /\ call.op = "verifyTransaction"
    /\ call.value = "false"
    /\ \A i \in 1..Len(drafts[call.d].inputs) :
          Cardinality(AuthorizedSignersOf(wallet, drafts[call.d].inputs[i])) >= wallet.m
    /\ \E i \in 1..Len(drafts[call.d].inputs) : HasSigOf(drafts[call.d].inputs[i], KX)

\* C3: finalizeTransaction on a draft that verifyTransaction refuses throws
\* 'Transaction verification failed' and leaves the draft and the used-signer
\* set as they were
C3_FinalizeRefusesUnverified ==
    [][ (call'.op = "finalizeTransaction" /\ ~VerifyTransaction(wallet, drafts[call'.d]))
          => /\ call'.kind = "throw"
             /\ call'.value = ErrVerification
             /\ drafts' = drafts
             /\ usedSigners' = usedSigners
             /\ wallet' = wallet ]_vars

\* a partially signed draft has been refused by finalizeTransaction
C3_Witness ==
    /\ call.op = "finalizeTransaction"
    /\ call.value = ErrVerification
    /\ wallet.m = 2
    /\ \E i \in 1..Len(drafts[call.d].inputs) :
          Len(drafts[call.d].inputs[i].partialSig) = 1

\* C4: finalizeTransaction on a draft it has finalized returns again, with the
\* same wire encoding, and changes neither the draft nor the wallet
C4_FinalizeRepeatable ==
    [][ (call'.op = "finalizeTransaction" /\ AllFinalized(drafts[call'.d]))
          => /\ call'.kind = "return"
             /\ call'.hex = ToHex(drafts[call'.d])
             /\ drafts' = drafts
             /\ usedSigners' = usedSigners ]_vars

\* C5: a successful finalizeTransaction leaves every input of the draft
\* finalized, a finalized draft never changes again, and a signTransaction call
\* on it is not accepted and records nothing, whoever signs
C5_FinalizedIsTerminal ==
    [][ /\ (call'.op = "finalizeTransaction" /\ call'.kind = "return")
            => AllFinalized(drafts'[call'.d])
        /\ \A d \in 1..Len(drafts) :
              AllFinalized(drafts[d]) => (Len(drafts') >= d /\ drafts'[d] = drafts[d])
        /\ (call'.op = "signTransaction" /\ AllFinalized(drafts[call'.d]))
            => /\ call'.value # "true"
               /\ drafts' = drafts
               /\ usedSigners' = usedSigners ]_vars

\* a signer of the key set who has not signed has been turned away on an input
\* of a finalized draft
C5_Witness ==
    /\ call.op = "signTransaction"
    /\ call.value = "false"
    /\ AllFinalized(drafts[call.d])
    /\ call.idx < Len(drafts[call.d].inputs)
    /\ IsWalletKey(wallet, call.signer)
    /\ \A i \in 1..Len(drafts[call.d].inputs) :
          \A j \in 1..Len(drafts[call.d].inputs[i].finalScript) :
              drafts[call.d].inputs[i].finalScript[j] # call.signer

\* C6: signTransaction by a signer outside the key set throws 'Signer is not
\* part of the multisig setup', whatever the used-signer set holds, and leaves
\* the drafts and the used-signer set as they were
C6_UnauthorizedSignerRejected ==
    [][ (call'.op = "signTransaction" /\ ~IsWalletKey(wallet, call'.signer))
          => /\ call'.kind = "throw"
             /\ call'.value = ErrNotSigner
             /\ drafts' = drafts
             /\ usedSigners' = usedSigners ]_vars

\* a stranger has been refused while the used-signer set was not empty
C6_Witness ==
    /\ call.op = "signTransaction"
    /\ call.value = ErrNotSigner
    /\ call.signer = KX
    /\ usedSigners # {}
    /\ call.idx < Len(drafts[call.d].inputs)

\* C7: resetSigners empties the used-signer set and changes neither the drafts
\* nor the wallet, and the signTransaction call that follows it is not refused
\* as a duplicate
C7_ResetClearsTrackingOnly ==
    [][ /\ call'.op = "resetSigners"
            => /\ usedSigners' = {}
               /\ drafts' = drafts
               /\ wallet' = wallet
        /\ (call.op = "resetSigners" /\ call'.op = "signTransaction")
            => call'.value # ErrAlreadySigned ]_vars

\* a signer whose signature is recorded on one input has signed another input
\* as well, which takes a resetSigners in between
C7_Witness ==
    /\ call.op = "signTransaction"
    /\ call.value = "true"
    /\ \E d \in 1..Len(drafts) : \E i \in 1..Len(drafts[d].inputs) :
          /\ <<d, i - 1>> # <<call.d, call.idx>>
          /\ HasSigOf(drafts[d].inputs[i], call.signer)
          /\ drafts[d].inputs[i].partialSig # <<>>

-----------------------------------------------------------------------------
(* Claims about createTransaction *)

\* the conditions under which createTransaction is to return a draft
DraftConditions(utxos, outputs, fee) ==
    /\ utxos # <<>>
    /\ outputs # <<>>
    /\ fee >= 0
    /\ SumValues(utxos) >= SumValues(outputs) + fee
    /\ \A i \in 1..Len(outputs) :
          Validate(outputs[i].address) /\ outputs[i].value > 0

\* C11: createTransaction returns a draft only when the UTXO list and the
\* output list are non-empty, the fee is not negative, the inputs cover the
\* outputs plus the fee, every address is valid and every amount is above
\* zero; in every other case it throws and no draft exists.  An output of
\* amount zero or less is never part of a draft.
C11_DraftOnlyWhenValid ==
    /\ call.op = "createTransaction" =>
          /\ call.kind \in {"return", "throw"}
          /\ call.kind = "return" =>
                /\ DraftConditions(call.utxos, call.outputs, call.fee)
                /\ Len(drafts) = 1
                /\ drafts[1] = NewDraft(wallet, call.utxos, call.outputs)
          /\ ~DraftConditions(call.utxos, call.outputs, call.fee) =>
                /\ call.kind = "throw"
                /\ call.value # ""
                /\ drafts = <<>>
    /\ \A d \in 1..Len(drafts) : \A i \in 1..Len(drafts[d].outputs) :
          drafts[d].outputs[i].value > 0

\* the outputs of positive amount alone, with the fee, exceed the inputs: the
\* funds check passed only because an output of negative amount lowered the
\* total, and the call was refused for that output
C11_Witness ==
    /\ call.op = "createTransaction"
    /\ call.kind = "throw"
    /\ call.value = ErrOutputValue
    /\ \E i \in 1..Len(call.outputs) : call.outputs[i].value < 0
    /\ SumValues(call.utxos) >= SumValues(call.outputs) + call.fee
    /\ SumValues(call.utxos) <
         SumValues(SelectSeq(call.outputs, LAMBDA o : o.value > 0)) + call.fee

-----------------------------------------------------------------------------
(* Claims about a signing attempt that fails *)

\* C12: when the signer is one of the wallet's and has not signed since the
\* last reset, but psbt.signInput fails, signTransaction returns false, leaves
\* the draft as it was and does not add the signer to usedSigners; a signer
\* outside the wallet or one who has already signed gets an error thrown,
\* never the value false.
C12_FailedSigningRecordsNothing ==
    [][call'.op = "signTransaction" =>
         LET s == call'.signer
             authorized == IsWalletKey(wallet, s)
             fresh == s \notin usedSigners
         IN /\ (authorized /\ fresh
                  /\ SignInputThrows(wallet, drafts[call'.d], call'.idx, s)) =>
                   /\ call'.kind = "return"
                   /\ call'.value = "false"
                   /\ drafts' = drafts
                   /\ usedSigners' = usedSigners
            /\ (~authorized \/ ~fresh) =>
                   /\ call'.kind = "throw"
                   /\ call'.value = IF ~authorized THEN ErrNotSigner
                                    ELSE ErrAlreadySigned
            /\ call'.value = "false" => authorized /\ fresh]_vars

\* a wallet key that is free to sign was refused by psbt.signInput (the input
\* holds its signature from before a reset, is finalized or does not exist),
\* and is still free to sign
C12_Witness ==
    /\ call.op = "signTransaction"
    /\ call.kind = "return"
    /\ call.value = "false"
    /\ IsWalletKey(wallet, call.signer)
    /\ call.signer \notin usedSigners
    /\ call.idx < Len(drafts[call.d].inputs)
    /\ ~drafts[call.d].inputs[call.idx + 1].finalized
    /\ HasSigOf(drafts[call.d].inputs[call.idx + 1], call.signer)

-----------------------------------------------------------------------------
(* signTransaction under concurrent callers *)

\* a context switch between two statements of signTransaction
Preemptive(p) == TRUE

\* signTransaction is a synchronous method (it returns boolean, its body holds
\* no await): once entered it runs to its return or throw before any other
\* call of the same JavaScript realm starts
RunToCompletion(p) == \A q \in Callers \ {p} : pending[q].pc # "checked"

\* caller p reaches its call signTransaction(psbt, keyPair, inputIndex)
Invoke(p, d, signer, inputIndex) ==
    /\ pending[p].pc = "idle"
    /\ d \in 1..Len(drafts)
    /\ pending' = [pending EXCEPT ![p] = [pc |-> "called", d |-> d, signer |-> signer,
                                          idx |-> inputIndex, value |-> ""]]
    /\ UNCHANGED <<wallet, usedSigners, drafts, call, bw>>

\* the call of p runs its two checks: the signer is a wallet key and has not
\* signed
SignEnter(p) ==
    /\ pending[p].pc = "called"
    /\ RunToCompletion(p)
    /\ LET c == pending[p]
       IN IF ~IsWalletKey(wallet, c.signer)
          THEN pending' = [pending EXCEPT ![p].pc = "done", ![p].value = ErrNotSigner]
          ELSE IF c.signer \in usedSigners
          THEN pending' = [pending EXCEPT ![p].pc = "done", ![p].value = ErrAlreadySigned]
          ELSE pending' = [pending EXCEPT ![p].pc = "checked"]
    /\ UNCHANGED <<wallet, usedSigners, drafts, call, bw>>

\* the call of p runs its try block: psbt.signInput, then usedSigners.add
SignFinish(p) ==
    /\ pending[p].pc = "checked"
    /\ LET c == pending[p]
       IN IF SignInputThrows(wallet, drafts[c.d], c.idx, c.signer)
          THEN /\ pending' = [pending EXCEPT ![p].pc = "done", ![p].value = "false"]
               /\ UNCHANGED <<drafts, usedSigners>>
          ELSE /\ drafts' = [drafts EXCEPT ![c.d] = SignInput(@, c.idx, c.signer)]
               /\ usedSigners' = usedSigners \cup {c.signer}
               /\ pending' = [pending EXCEPT ![p].pc = "done", ![p].value = "true"]
    /\ UNCHANGED <<wallet, call, bw>>

\* a wallet with one draft, nobody has signed, no call in progress
InitConcurrent ==
    /\ \E cfg \in WalletConfigs : wallet = NewWallet(cfg[1], cfg[2])
    /\ usedSigners = {}
    /\ \E utxos \in SeqsUpTo(UtxoChoices(wallet), MaxInputs) :
          /\ utxos # <<>>
          /\ drafts = <<NewDraft(wallet, utxos,
                           <<[address |-> "tb1qw508d6qejxtdg4y5r3zarvary0c5xw7kxpjzsx",
                              value |-> 2]>>)>>
    /\ call = NoCall
    /\ pending = NoPending
    /\ bw = NoBroken

NextConcurrent ==
    \/ \E p \in Callers, d \in 1..MaxDrafts, signer \in Signers,
          inputIndex \in 0..MaxInputs : Invoke(p, d, signer, inputIndex)
    \/ \E p \in Callers : SignEnter(p)
    \/ \E p \in Callers : SignFinish(p)

SpecConcurrent == InitConcurrent /\ [][NextConcurrent]_vars

\* C13: of two concurrent signTransaction calls for one signer, with no
\* resetSigners between them, at most one returns true; the test of
\* usedSigners and the insertion into it are not interleaved with another
\* signTransaction call, so the test still holds when the insertion is made.
C13_CheckAndInsertAtomic ==
    /\ \A p, q \in Callers :
          (p # q /\ pending[p].pc = "done" /\ pending[q].pc = "done"
             /\ pending[p].signer = pending[q].signer)
          => ~(pending[p].value = "true" /\ pending[q].value = "true")
    /\ \A p, q \in Callers :
          (p # q /\ pending[p].pc = "checked") => pending[q].pc # "checked"
    /\ \A p \in Callers :
          pending[p].pc = "checked" => pending[p].signer \notin usedSigners

\* two callers had their calls for one wallet key pending at once, on two
\* inputs that would each have taken the signature; one call returned true
\* and the other threw
C13_Witness ==
    \E p, q \in Callers :
        /\ p # q
        /\ pending[p].pc = "done" /\ pending[q].pc = "done"
        /\ pending[p].signer = pending[q].signer
        /\ pending[p].idx # pending[q].idx
        /\ pending[p].idx < Len(drafts[1].inputs)
        /\ pending[q].idx < Len(drafts[1].inputs)
        /\ pending[p].value = "true"
        /\ pending[q].value = ErrAlreadySigned

-----------------------------------------------------------------------------
(* BrokenMultisigWallet of src/advanced-musig.ts: paths and keys *)

\* A derivation path is its root and the segments that follow it, as
\* path.split("/") yields them; a segment is a number, hardened when the
\* number is followed by an apostrophe.
Seg(n, h) == [n |-> n, h |-> h]
Path(root, segs) == [root |-> root, segs |-> segs]

\* "m/49'/0'/0'/0", the prefix used when config.derivationPath is absent
DefaultDerivationPath ==
    Path("m", <<Seg(49, TRUE), Seg(0, TRUE), Seg(0, TRUE), Seg(0, FALSE)>>)

\* "m/48'/0'/0'/2'", a prefix given as config.derivationPath
CustomDerivationPath ==
    Path("m", <<Seg(48, TRUE), Seg(0, TRUE), Seg(0, TRUE), Seg(2, TRUE)>>)

\* `${derivationPath}/${index}`
ChildPath(derivationPath, index) ==
    [derivationPath EXCEPT !.segs = Append(@, Seg(index, FALSE))]

\* A mnemonic is modelled by the entropy it encodes; bip39.generateMnemonic
\* draws one of these
Mnemonics == {1, 2}
\* a phrase whose checksum fails
BadMnemonic == 0

\* bip39.validateMnemonic(mnemonic)
ValidateMnemonic(mnemonic) == mnemonic \in Mnemonics

\* root.derivePath(path).publicKey for root = bip32.fromSeed(seed of the
\* mnemonic): a compressed point fixed by the seed and by every segment of
\* the path
DerivePublicKey(mnemonic, path) ==
    <<2 + (mnemonic % 2), mnemonic>> \o
        [i \in 1..Len(path.segs) |->
            2 * path.segs[i].n + (IF path.segs[i].h THEN 1 ELSE 0)]

\* the KeyPairInfo generateKeyPair(index) returns when generateMnemonic drew
\* mnemonic (the private key is left out)
KeyPairAt(w, mnemonic, index) ==
    LET path == ChildPath(w.derivationPath, index)
    IN [mnemonic |-> mnemonic, path |-> path,
        publicKey |-> DerivePublicKey(mnemonic, path)]

-----------------------------------------------------------------------------
(* BrokenMultisigWallet: scripts *)

SIGHASH_NONE == 2

\* bitcoin.script.number.encode(x) for |x| < 128: the bytes of |x|, the top
\* bit of the last byte set when x is negative, no byte at all for 0
NumberEncode(x) ==
    IF x = 0 THEN <<>>
    ELSE IF x > 0 THEN <<x>>
    ELSE <<128 - x>>

\* bitcoin.script.compile of a Buffer chunk: the one-byte opcode when there is
\* one (OP_0 for the empty Buffer, OP_1..OP_16, OP_1NEGATE), a push otherwise
CompileBuffer(buf) ==
    IF Len(buf) = 0 THEN <<0>>
    ELSE IF Len(buf) = 1 /\ buf[1] \in 1..16 THEN <<80 + buf[1]>>
    ELSE IF Len(buf) = 1 /\ buf[1] = 129 THEN <<79>>
    ELSE <<Len(buf)>> \o buf

\* bitcoin.payments.p2pkh({pubkey}).output: OP_DUP OP_HASH160 <hash of the
\* key> OP_EQUALVERIFY OP_CHECKSIG, the hash modelled by the key it commits to
P2PKHOutput(pubkey) == <<118, 169>> \o CompilePush(pubkey) \o <<136, 172>>

\* kp.publicKey of every key pair
PublicKeysOf(keyPairs) == [i \in 1..Len(keyPairs) |-> keyPairs[i].publicKey]

\* the script createMultisigAddresses hands to p2wsh:
\* OP_1, the public keys, OP_1, OP_CHECKMULTISIG
WitnessScriptOf(keyPairs) ==
    <<81>> \o CompileKeys(PublicKeysOf(keyPairs)) \o <<81, OP_CHECKMULTISIG>>

\* createInsecureMultisig(): the public keys, OP_CHECKMULTISIG, then the two
\* numbers
CreateInsecureMultisigScript(w) ==
    CompileKeys(PublicKeysOf(w.keyPairs)) \o <<OP_CHECKMULTISIG>>
        \o CompileBuffer(NumberEncode(w.requiredSignatures))
        \o CompileBuffer(NumberEncode(w.totalSigners))

\* bitcoin.script.decompile(script): the chunks of a script, an opcode as
\* [op |-> byte], a push of 1..75 bytes as [data |-> bytes]; a push that runs
\* past the end of the script ends the chunks
RECURSIVE Decompile(_)
Decompile(script) ==
    IF script = <<>> THEN <<>>
    ELSE LET b == Head(script)
         IN IF b \in 1..75
            THEN IF Len(script) < 1 + b THEN <<>>
                 ELSE <<[data |-> SubSeq(script, 2, 1 + b)]>>
                          \o Decompile(SubSeq(script, 2 + b, Len(script)))
            ELSE <<[op |-> b]>> \o Decompile(Tail(script))

-----------------------------------------------------------------------------
(* BrokenMultisigWallet: operations *)

\* largest totalSigners handed to the constructor
MaxSigners == 2
\* most key pairs a wallet comes to hold in one behaviour
MaxKeyPairs == 4
\* most asynchronous calls waiting at an await at once
MaxInFlight == 2

ErrInvalidRequirements == "Invalid signature requirements"
ErrNotEnoughData == "Not enough data"
ErrInvalidMnemonic == "Invalid mnemonic"
ErrInvalidIndex == "Invalid signer index"
ErrBIP32Path == "Expected BIP32Path"
ErrTypeError == "TypeError"

\* the fields the constructor sets
NewBroken(requiredSignatures, totalSigners, derivationPath) ==
    [NoBroken EXCEPT !.constructed = TRUE,
                     !.requiredSignatures = requiredSignatures,
                     !.totalSigners = totalSigners,
                     !.derivationPath = IF derivationPath = Undefined
                                        THEN DefaultDerivationPath
                                        ELSE derivationPath[1]]

\* new BrokenMultisigWallet(requiredSignatures, totalSigners, config);
\* derivationPath is config.derivationPath, Undefined when absent
ConstructBroken(requiredSignatures, totalSigners, derivationPath) ==
    /\ ~bw.constructed
    /\ LET c == [NoCall EXCEPT !.op = "BrokenMultisigWallet",
                               !.requiredSigs = requiredSignatures,
                               !.totalSigners = totalSigners]
       IN IF requiredSignatures > totalSigners
          THEN /\ bw' = bw
               /\ call' = [c EXCEPT !.kind = "throw", !.value = ErrInvalidRequirements]
          ELSE /\ bw' = NewBroken(requiredSignatures, totalSigners, derivationPath)
               /\ call' = [c EXCEPT !.kind = "return"]
    /\ UNCHANGED <<wallet, usedSigners, drafts, pending>>

\* createMultisigAddresses(): p2pkh refuses an absent public key; otherwise
\* the redeem script and the two addresses are set
CreateMultisigAddresses(w) ==
    [w EXCEPT !.redeemScript = <<P2PKHOutput(w.keyPairs[1].publicKey)>>,
              !.addresses =
                  <<[p2sh |-> P2SHAddress(P2PKHOutput(w.keyPairs[1].publicKey)),
                     p2wsh |-> P2WSHAddress(WitnessScriptOf(w.keyPairs))]>>]

\* a call waiting at an await: op is the method that was called, i the index
\* generateKeyPair was given, mnemonic the phrase it drew; keyPair is Undefined
\* while generateKeyPair waits for the seed, and the key pair generateKeyPair
\* returned while generateWallet waits for it
InFlight(op, i, mnemonic, keyPair) ==
    [op |-> op, i |-> i, mnemonic |-> mnemonic, keyPair |-> keyPair]

\* the key pairs the generateWallet calls in flight have yet to push
RECURSIVE PushesToCome(_, _)
PushesToCome(calls, n) ==
    IF calls = EmptyBag THEN 0
    ELSE LET this == CHOOSE c \in BagToSet(calls) : TRUE
         IN (IF this.op = "generateWallet" THEN n - this.i ELSE 0)
            + PushesToCome(calls (-) SetToBag({this}), n)

\* generateWallet() up to its first await: with no signer the loop is skipped
\* and createMultisigAddresses runs at once; otherwise generateKeyPair(0) is
\* called, draws mnemonic and waits for the seed
StartGenerateWallet(mnemonic) ==
    /\ bw.constructed
    /\ BagCardinality(bw.calls) < MaxInFlight
    /\ Len(bw.keyPairs) + PushesToCome(bw.calls, bw.totalSigners) + bw.totalSigners
         <= MaxKeyPairs
    /\ LET c == [NoCall EXCEPT !.op = "generateWallet"]
       IN IF bw.totalSigners > 0
          THEN /\ bw' = [bw EXCEPT !.calls =
                               @ (+) SetToBag({InFlight("generateWallet", 0, mnemonic, Undefined)})]
               /\ call' = [c EXCEPT !.kind = "pending"]
          ELSE IF bw.keyPairs = <<>>
          THEN /\ bw' = bw
               /\ call' = [c EXCEPT !.kind = "throw", !.value = ErrNotEnoughData]
          ELSE /\ bw' = [CreateMultisigAddresses(bw) EXCEPT !.generated = @ + 1]
               /\ call' = [c EXCEPT !.kind = "return"]
    /\ UNCHANGED <<wallet, usedSigners, drafts, pending>>

\* the generateKeyPair(i) of a generateWallet() in flight resumes: the path is
\* built, the key derived and the key pair returned; generateWallet waits for
\* it at its own await
GenerateWalletDerive(this) ==
    /\ BagIn(this, bw.calls)
    /\ this.op = "generateWallet"
    /\ this.keyPair = Undefined
    /\ bw' = [bw EXCEPT !.calls =
                    (@ (-) SetToBag({this}))
                    (+) SetToBag({InFlight("generateWallet", this.i, this.mnemonic,
                                           <<KeyPairAt(bw, this.mnemonic, this.i)>>)})]
    /\ call' = [NoCall EXCEPT !.op = "generateWallet", !.kind = "pending"]
    /\ UNCHANGED <<wallet, usedSigners, drafts, pending>>

\* a generateWallet() in flight resumes with the key pair it waited for: the
\* key pair is pushed; then either generateKeyPair(i + 1) is called, draws
\* mnemonic and waits for the seed, or the loop is over and the addresses are
\* made
GenerateWalletStep(this, mnemonic) ==
    /\ BagIn(this, bw.calls)
    /\ this.op = "generateWallet"
    /\ this.keyPair # Undefined
    /\ LET pushed == [bw EXCEPT !.keyPairs = Append(@, this.keyPair[1]),
                                !.calls = @ (-) SetToBag({this})]
       IN IF this.i + 1 < bw.totalSigners
          THEN /\ bw' = [pushed EXCEPT !.calls =
                            @ (+) SetToBag({InFlight("generateWallet", this.i + 1,
                                                     mnemonic, Undefined)})]
               /\ call' = [NoCall EXCEPT !.op = "generateWallet", !.kind = "pending"]
          ELSE /\ bw' = [CreateMultisigAddresses(pushed) EXCEPT !.generated = @ + 1]
               /\ call' = [NoCall EXCEPT !.op = "generateWallet", !.kind = "return"]
    /\ UNCHANGED <<wallet, usedSigners, drafts, pending>>

\* getAddresses()
GetAddresses ==
    /\ bw.constructed
    /\ call' = [NoCall EXCEPT !.op = "getAddresses", !.kind = "return",
                             !.addresses = bw.addresses]
    /\ UNCHANGED <<wallet, usedSigners, drafts, pending, bw>>

\* generateKeyPair(index), called from outside, up to its await:
\* generateMnemonic draws mnemonic and the call waits for the seed
GenerateKeyPair(index, mnemonic) ==
    /\ bw.constructed
    /\ BagCardinality(bw.calls) < MaxInFlight
    /\ bw' = [bw EXCEPT !.calls =
                    @ (+) SetToBag({InFlight("generateKeyPair", index, mnemonic, Undefined)})]
    /\ call' = [NoCall EXCEPT !.op = "generateKeyPair", !.idx = index,
                             !.mnemonic = mnemonic, !.kind = "pending"]
    /\ UNCHANGED <<wallet, usedSigners, drafts, pending>>

\* a generateKeyPair(index) in flight resumes: the path is built and the key
\* derived; derivePath refuses a path with a negative number
GenerateKeyPairResume(this) ==
    /\ BagIn(this, bw.calls)
    /\ this.op = "generateKeyPair"
    /\ LET r == [NoCall EXCEPT !.op = "generateKeyPair", !.idx = this.i,
                               !.mnemonic = this.mnemonic]
       IN IF this.i < 0
          THEN call' = [r EXCEPT !.kind = "throw", !.value = ErrBIP32Path]
          ELSE call' = [r EXCEPT !.kind = "return",
                                 !.keyPair = <<KeyPairAt(bw, this.mnemonic, this.i)>>]
    /\ bw' = [bw EXCEPT !.calls = @ (-) SetToBag({this})]
    /\ UNCHANGED <<wallet, usedSigners, drafts, pending>>

\* createInsecureMultisig()
CreateInsecureMultisig ==
    /\ bw.constructed
    /\ call' = [NoCall EXCEPT !.op = "createInsecureMultisig", !.kind = "return",
                             !.script = CreateInsecureMultisigScript(bw)]
    /\ UNCHANGED <<wallet, usedSigners, drafts, pending, bw>>

\* signTransaction(txHex, inputIndex, keyPair) of BrokenMultisigWallet, txHex
\* a transaction of nIns inputs: hashForSignature refuses an absent script and
\* an index that is no UInt32, setInputScript an input that does not exist;
\* the input's script becomes the digest and the public key
BrokenSignTransaction(nIns, inputIndex, keyPair) ==
    /\ bw.constructed
    /\ LET hashType == SIGHASH_NONE
           c == [NoCall EXCEPT !.op = "BrokenMultisigWallet.signTransaction",
                               !.idx = inputIndex, !.signer = keyPair.publicKey]
       IN IF bw.redeemScript = Undefined \/ inputIndex < 0 \/ inputIndex >= nIns
          THEN call' = [c EXCEPT !.kind = "throw", !.value = ErrTypeError]
          ELSE call' = [c EXCEPT !.kind = "return", !.hashType = hashType,
                                 !.script = <<[digestOf |-> inputIndex,
                                               prevOutScript |-> bw.redeemScript[1],
                                               hashType |-> hashType],
                                              keyPair.publicKey>>]
    /\ UNCHANGED <<wallet, usedSigners, drafts, pending, bw>>

\* recover walking the path of the first signer whatever the index
RecoverAtFirstIndex(w, mnemonic, index) ==
    LET path == ChildPath(w.derivationPath, 0)
    IN [mnemonic |-> mnemonic, path |-> path,
        publicKey |-> DerivePublicKey(mnemonic, path)]

\* what recover returns for a phrase that validates and an index it accepts:
\* the seed of the phrase is derived again and walked down the wallet's path
\* prefix followed by the index
Recover(w, mnemonic, index) ==
    LET path == ChildPath(w.derivationPath, index)
    IN [mnemonic |-> mnemonic, path |-> path,
        publicKey |-> DerivePublicKey(mnemonic, path)]

\* restoreFromMnemonic without its check of the index
RestoreFromMnemonicAnyIndex(mnemonic, index) ==
    /\ bw.constructed
    /\ LET c == [NoCall EXCEPT !.op = "restoreFromMnemonic", !.idx = index,
                               !.mnemonic = mnemonic]
       IN IF ~ValidateMnemonic(mnemonic)
          THEN call' = [c EXCEPT !.kind = "throw", !.value = ErrInvalidMnemonic]
          ELSE call' = [c EXCEPT !.kind = "return",
                                 !.keyPair = <<Recover(bw, mnemonic, index)>>]
    /\ UNCHANGED <<wallet, usedSigners, drafts, pending, bw>>

\* restoreFromMnemonic(mnemonic, index): the phrase is validated, then the
\* index; the seed of the phrase is walked down the path of that index
RestoreFromMnemonic(mnemonic, index) ==
    /\ bw.constructed
    /\ LET c == [NoCall EXCEPT !.op = "restoreFromMnemonic", !.idx = index,
                               !.mnemonic = mnemonic]
       IN IF ~ValidateMnemonic(mnemonic)
          THEN call' = [c EXCEPT !.kind = "throw", !.value = ErrInvalidMnemonic]
          ELSE IF index < 0 \/ index >= bw.totalSigners
          THEN call' = [c EXCEPT !.kind = "throw", !.value = ErrInvalidIndex]
          ELSE call' = [c EXCEPT !.kind = "return",
                                 !.keyPair = <<Recover(bw, mnemonic, index)>>]
    /\ UNCHANGED <<wallet, usedSigners, drafts, pending, bw>>

\* path.startsWith("m/") && path.split("/").length === 5
ValidatePath(path) ==
    /\ path.root = "m" /\ Len(path.segs) >= 1
    /\ 1 + Len(path.segs) = 5

\* validatePath(path)
ValidatePathCall(path) ==
    /\ bw.constructed
    /\ call' = [NoCall EXCEPT !.op = "validatePath", !.path = path, !.kind = "return",
                             !.value = IF ValidatePath(path) THEN "true" ELSE "false"]
    /\ UNCHANGED <<wallet, usedSigners, drafts, pending, bw>>

-----------------------------------------------------------------------------
(* BrokenMultisigWallet in use: the methods the class has; restoreFromMnemonic,
   which it does not have, is called under SpecRestore *)

\* the numbers handed to the constructor
RequiredSignaturesInputs == (-1) .. (MaxSigners + 1)
TotalSignersInputs == 0 .. MaxSigners
DerivationPathInputs == {Undefined, <<CustomDerivationPath>>}

\* the indices handed to restoreFromMnemonic, and those handed to
\* generateKeyPair, which does not compare its index with totalSigners
IndexInputs == (-1) .. MaxSigners
KeyIndexInputs == (-1) .. (MaxSigners - 1)

\* the calls that can be waiting at an await
InFlightInputs ==
    {InFlight(op, i, mnemonic, Undefined) :
        op \in {"generateWallet", "generateKeyPair"},
        i \in KeyIndexInputs, mnemonic \in Mnemonics}
    \cup {InFlight("generateWallet", i, mnemonic,
                   <<KeyPairAt(NewBroken(1, 1, derivationPath), mnemonic, i)>>) :
            i \in 0 .. (MaxSigners - 1), mnemonic \in Mnemonics,
            derivationPath \in DerivationPathInputs}

\* the key pairs handed to signTransaction
KeyPairInputs ==
    {KeyPairAt(NewBroken(1, 1, Undefined), mnemonic, 0) : mnemonic \in Mnemonics}

InitBroken ==
    /\ wallet = NoWallet
    /\ usedSigners = {}
    /\ drafts = <<>>
    /\ call = NoCall
    /\ pending = NoPending
    /\ bw = NoBroken

NextBroken ==
    \/ \E requiredSignatures \in RequiredSignaturesInputs,
          totalSigners \in TotalSignersInputs,
          derivationPath \in DerivationPathInputs :
            ConstructBroken(requiredSignatures, totalSigners, derivationPath)
    \/ \E mnemonic \in Mnemonics : StartGenerateWallet(mnemonic)
    \/ \E this \in InFlightInputs : GenerateWalletDerive(this)
    \/ \E this \in InFlightInputs, mnemonic \in Mnemonics :
            GenerateWalletStep(this, mnemonic)
    \/ GetAddresses
    \/ \E index \in KeyIndexInputs, mnemonic \in Mnemonics :
            GenerateKeyPair(index, mnemonic)
    \/ \E this \in InFlightInputs : GenerateKeyPairResume(this)
    \/ CreateInsecureMultisig
    \/ \E nIns \in 1..MaxInputs, inputIndex \in 0..MaxInputs,
          keyPair \in KeyPairInputs :
            BrokenSignTransaction(nIns, inputIndex, keyPair)

SpecBroken == InitBroken /\ [][NextBroken]_vars

-----------------------------------------------------------------------------
(* Generating and recovering: the wallet is constructed, generateWallet is
   called, any number of times and while earlier calls wait, and
   restoreFromMnemonic is called *)

InitRestore == InitBroken

NextRestore ==
    \/ \E requiredSignatures \in RequiredSignaturesInputs,
          totalSigners \in TotalSignersInputs,
          derivationPath \in DerivationPathInputs :
            ConstructBroken(requiredSignatures, totalSigners, derivationPath)
    \/ \E mnemonic \in Mnemonics : StartGenerateWallet(mnemonic)
    \/ \E this \in InFlightInputs : GenerateWalletDerive(this)
    \/ \E this \in InFlightInputs, mnemonic \in Mnemonics :
            GenerateWalletStep(this, mnemonic)
    \/ \E index \in IndexInputs, mnemonic \in Mnemonics \cup {BadMnemonic} :
            RestoreFromMnemonic(mnemonic, index)

SpecRestore == InitRestore /\ [][NextRestore]_vars

-----------------------------------------------------------------------------
(* validatePath as a function of its argument *)

\* most segments after the root of a path handed to validatePath
MaxSegments == 5

SegInputs == {Seg(n, h) : n \in {0, 2, 48}, h \in BOOLEAN}
PathInputs == {Path(root, segs) : root \in {"m", "x"},
                                  segs \in SeqsUpTo(SegInputs, MaxSegments)}

InitPath ==
    /\ wallet = NoWallet
    /\ usedSigners = {}
    /\ drafts = <<>>
    /\ call = NoCall
    /\ pending = NoPending
    /\ bw = NewBroken(MaxSigners, MaxSigners, Undefined)

NextPath ==
    /\ call.op = "none"
    /\ \E path \in PathInputs : ValidatePathCall(path)

SpecPath == InitPath /\ [][NextPath]_vars

-----------------------------------------------------------------------------
(* Claims about BrokenMultisigWallet *)

\* every partial signature MultisigWallet.signTransaction has recorded in a
\* draft carries SIGHASH_ALL
DraftSignaturesUseSighashAll ==
    \A d \in 1..Len(drafts) : \A i \in 1..Len(drafts[d].inputs) :
        \A j \in 1..Len(drafts[d].inputs[i].partialSig) :
            drafts[d].inputs[i].partialSig[j].hashType = SIGHASH_ALL

\* C14: every signature a wallet's signTransaction produces is made with
\* SIGHASH_ALL: those recorded in a draft, and the one the signTransaction of
\* BrokenMultisigWallet puts into the input's script; no signing path uses
\* SIGHASH_NONE.
C14_SignaturesUseSighashAll ==
    /\ DraftSignaturesUseSighashAll
    /\ (call.op = "BrokenMultisigWallet.signTransaction" /\ call.kind = "return") =>
          /\ call.hashType = SIGHASH_ALL
          /\ call.script[1].hashType = SIGHASH_ALL

\* the signer indices of the wallet
SignerIndices == 0 .. (bw.totalSigners - 1)

\* the wallet holds the key pairs of one generateWallet call and no others: a
\* call has completed and n key pairs are stored, so the j-th of them is the
\* one that call generated at index j - 1
HoldsOneGeneration ==
    /\ bw.generated >= 1
    /\ Len(bw.keyPairs) = bw.totalSigners

\* the call that has just returned is restoreFromMnemonic(mnemonic, index)
Recovered(c, mnemonic, index) ==
    /\ c.op = "restoreFromMnemonic"
    /\ c.mnemonic = mnemonic
    /\ c.idx = index

\* the key pair the call returned has the path and the public key of keyPair
SameKey(c, keyPair) ==
    /\ c.kind = "return"
    /\ c.keyPair[1].path = keyPair.path
    /\ c.keyPair[1].publicKey = keyPair.publicKey

C16_RecoverRefusesBadInput ==
    call.op = "restoreFromMnemonic" =>
        /\ ~ValidateMnemonic(call.mnemonic) =>
              /\ call.kind = "throw"
              /\ call.value = ErrInvalidMnemonic
              /\ call.keyPair = <<>>
        /\ call.idx \notin SignerIndices =>
              /\ call.kind = "throw"
              /\ ValidateMnemonic(call.mnemonic) => call.value = ErrInvalidIndex
              /\ call.keyPair = <<>>

\* a phrase the wallet generated, handed in with the first index past the
\* wallet's signers, was refused for the index
C16_Witness ==
    /\ call.op = "restoreFromMnemonic"
    /\ call.kind = "throw"
    /\ call.value = ErrInvalidIndex
    /\ call.idx = bw.totalSigners
    /\ bw.totalSigners > 0
    /\ \E j \in 1..Len(bw.keyPairs) : bw.keyPairs[j].mnemonic = call.mnemonic

\* "m/48'/0'/0'/2'/0" and "m/48/0/0/2/0"
HardenedPath ==
    Path("m", <<Seg(48, TRUE), Seg(0, TRUE), Seg(0, TRUE), Seg(2, TRUE), Seg(0, FALSE)>>)
UnhardenedPath ==
    Path("m", <<Seg(48, FALSE), Seg(0, FALSE), Seg(0, FALSE), Seg(2, FALSE), Seg(0, FALSE)>>)

\* C17: validatePath returns true for m/48'/0'/0'/2'/0 and false for
\* m/48/0/0/2/0, and false for every path with a segment that is not
\* hardened among those from the root down to the account level (purpose,
\* coin type, account: the first three).
C17_ValidatePathChecksHardened ==
    call.op = "validatePath" =>
        /\ call.path = HardenedPath => call.value = "true"
        /\ call.path = UnhardenedPath => call.value = "false"
        /\ (\E i \in 1..Len(call.path.segs) :
                i <= 3 /\ ~call.path.segs[i].h)
              => call.value = "false"

\* C18: new BrokenMultisigWallet(m, n) throws 'Invalid signature
\* requirements' whenever m > n, m = 0 or m < 0, so every wallet that exists
\* has its required-signature count in 1..n.
C18_ThresholdWithinSigners ==
    /\ (call.op = "BrokenMultisigWallet"
          /\ (call.requiredSigs > call.totalSigners \/ call.requiredSigs <= 0))
         => /\ call.kind = "throw"
            /\ call.value = ErrInvalidRequirements
            /\ ~bw.constructed
    /\ bw.constructed => bw.requiredSignatures \in 1..bw.totalSigners

ErrNotInitialized == "Wallet not initialized. Call generateWallet() first."

\* C19: as long as no generateWallet call has completed, getAddresses throws
\* 'Wallet not initialized. Call generateWallet() first.'; it never returns
\* an absent address pair.
C19_AddressesOnlyAfterGenerate ==
    call.op = "getAddresses" =>
        /\ bw.generated = 0 => (call.kind = "throw" /\ call.value = ErrNotInitialized)
        /\ call.kind = "return" => call.addresses # Undefined

\* the chunks of script are, in this order: m, the n keys in sorted order, n,
\* OP_CHECKMULTISIG
ScriptInOrder(script, m, keys, n) ==
    LET chunks == Decompile(script)
        sorted == SortKeys(keys)
    IN /\ Len(keys) = n
       /\ Len(chunks) = n + 3
       /\ chunks[1] = [op |-> 80 + m]
       /\ \A i \in 1..n : chunks[1 + i] = [data |-> sorted[i]]
       /\ chunks[Len(chunks) - 1] = [op |-> 80 + n]
       /\ chunks[Len(chunks)] = [op |-> OP_CHECKMULTISIG]

\* the redeem script of every MultisigWallet is in that order
RedeemScriptInOrder ==
    wallet # NoWallet =>
        ScriptInOrder(wallet.redeemScript, wallet.m, wallet.pubkeys, wallet.n)

\* C20: a multisig locking script consists, in this order, of the threshold m,
\* the n public keys in sorted order, the signer count n and
\* OP_CHECKMULTISIG: the redeem script of a MultisigWallet and the script
\* createInsecureMultisig returns once the wallet's keys are generated.
C20_ScriptInOrder ==
    /\ RedeemScriptInOrder
    /\ (call.op = "createInsecureMultisig" /\ bw.generated = 1 /\ bw.calls = EmptyBag
          /\ bw.requiredSignatures >= 1)
         => ScriptInOrder(call.script, bw.requiredSignatures,
                          PublicKeysOf(bw.keyPairs), bw.totalSigners)

-----------------------------------------------------------------------------
(* Claims about the wallet over a whole behaviour *)

\* C21: usedSigners is empty when the wallet is constructed; a step changes
\* it only by adding the signer of a signTransaction call that returns true
\* or by resetSigners emptying it; createTransaction, verifyTransaction and
\* finalizeTransaction leave it as it is, also when the draft is finalized.
C21_UsedSignersFrame ==
    /\ usedSigners = {}
    /\ [][/\ usedSigners' # usedSigners =>
               \/ /\ call'.op = "signTransaction"
                  /\ call'.kind = "return" /\ call'.value = "true"
                  /\ call'.signer \notin usedSigners
                  /\ usedSigners' = usedSigners \cup {call'.signer}
               \/ /\ call'.op = "resetSigners"
                  /\ usedSigners' = {}
          /\ (call' # call /\ call'.op \in {"createTransaction", "verifyTransaction",
                                              "finalizeTransaction"})
               => usedSigners' = usedSigners
          /\ (call' # call /\ call'.op = "signTransaction" /\ call'.value # "true")
               => usedSigners' = usedSigners]_vars

\* finalizeTransaction returned the transaction of a draft and the signers
\* who signed it are still recorded
C21_Witness ==
    /\ call.op = "finalizeTransaction"
    /\ call.kind = "return"
    /\ AllFinalized(drafts[call.d])
    /\ Cardinality(usedSigners) = wallet.m

\* C22: the draft createTransaction returns has one input per UTXO and one
\* output per output handed in, in that order; no input holds a partial
\* signature; every input carries the wallet's script and has exactly one
\* form, the witness form with the committed script and the amount when the
\* UTXO's scriptPubKey starts with "0020", the legacy form otherwise.
C22_DraftMirrorsArguments ==
    (call.op = "createTransaction" /\ call.kind = "return") =>
        LET draft == drafts[call.d]
        IN /\ Len(draft.inputs) = Len(call.utxos)
           /\ draft.outputs = call.outputs
           /\ \A i \in 1..Len(call.utxos) :
                 LET input == draft.inputs[i]
                     utxo == call.utxos[i]
                 IN /\ input.partialSig = <<>>
                    /\ ~input.finalized
                    /\ input.redeemScript = wallet.redeemScript
                    /\ input.commits = utxo.scriptPubKey.commits
                    /\ input.value = IF StartsWith0020(utxo.scriptPubKey)
                                     THEN <<utxo.value>> ELSE Undefined
                    /\ input.form \in {"witnessUtxo", "nonWitnessUtxo"}
                    /\ input.form = "witnessUtxo" <=> StartsWith0020(utxo.scriptPubKey)

\* a draft of two inputs, the first in legacy form and the second in witness
\* form holding an amount other than the value of the first UTXO, and two
\* outputs of different amounts
C22_Witness ==
    /\ call.op = "createTransaction"
    /\ call.kind = "return"
    /\ Len(drafts[call.d].inputs) = 2
    /\ drafts[call.d].inputs[1].form = "nonWitnessUtxo"
    /\ drafts[call.d].inputs[2].form = "witnessUtxo"
    /\ drafts[call.d].inputs[2].value # <<call.utxos[1].value>>
    /\ Len(drafts[call.d].outputs) = 2
    /\ drafts[call.d].outputs[1].value # drafts[call.d].outputs[2].value

-----------------------------------------------------------------------------
(* The wallet used without resetSigners *)

\* the wallets of this specification: those of the main one and a 2-of-3
WalletConfigsNoReset == WalletConfigs \cup {<<2, <<KA, KB, KC>>>>}

InitNoReset ==
    /\ \E cfg \in WalletConfigsNoReset :
          /\ ConstructionError(2 * cfg[1], cfg[2]) = ""
          /\ wallet = NewWallet(cfg[1], cfg[2])
    /\ usedSigners = {}
    /\ drafts = <<>>
    /\ call = NoCall
    /\ pending = NoPending
    /\ bw = NoBroken

NextNoReset ==
    \/ \E utxos \in SeqsUpTo(UtxoChoices(wallet), MaxInputs),
          outputs \in SeqsUpTo(OutputChoices, 1),
          fee \in FeeChoices :
            CreateTransaction(utxos, outputs, fee)
    \/ \E d \in 1..MaxDrafts, signer \in Signers \cup {KC},
          inputIndex \in 0..MaxInputs :
            SignTransaction(d, signer, inputIndex)
    \/ \E d \in 1..MaxDrafts : Verify(d)
    \/ \E d \in 1..MaxDrafts : FinalizeTransaction(d)

SpecNoReset == InitNoReset /\ [][NextNoReset]_vars

\* the signers whose signature an input holds or held when it was finalized
Contributors(input) ==
    SignersOf(input) \cup {input.finalScript[i] : i \in 1..Len(input.finalScript)}

\* the inputs of all drafts, as pairs (draft, input)
AllInputs == {di \in (1..Len(drafts)) \X (1..MaxInputs) :
                 di[2] <= Len(drafts[di[1]].inputs)}

\* the inputs that took a signature of k
SignedBy(k) == {di \in AllInputs : k \in Contributors(drafts[di[1]].inputs[di[2]])}

\* C23: as long as resetSigners is not called, the wallet takes at most one
\* signature of each signer over all drafts and inputs, at most n in all, and
\* only of signers it has recorded; so verifyTransaction is true of a draft of
\* k inputs only if k * m <= n.
C23_OneSignaturePerSigner ==
    /\ \A k \in Signers \cup {KC} : Cardinality(SignedBy(k)) <= 1
    /\ \A di \in AllInputs : Contributors(drafts[di[1]].inputs[di[2]]) \subseteq usedSigners
    /\ Cardinality(usedSigners) <= wallet.n
    /\ \A d \in 1..Len(drafts) :
          VerifyTransaction(wallet, drafts[d]) =>
              Len(drafts[d].inputs) * wallet.m <= wallet.n
    /\ (call.op = "verifyTransaction" /\ call.value = "true") =>
          Len(drafts[call.d].inputs) * wallet.m <= wallet.n

\* verifyTransaction returned true for a draft of two inputs that used up
\* every signer of the wallet
C23_Witness ==
    /\ call.op = "verifyTransaction"
    /\ call.value = "true"
    /\ Len(drafts[call.d].inputs) = 2
    /\ Len(drafts[call.d].inputs) * wallet.m = wallet.n
    /\ Cardinality(usedSigners) = wallet.n

\* the verifyTransaction loop over partialSig meets a public key it has
\* already put into its Set
RECURSIVE HitsDuplicate(_, _)
HitsDuplicate(sigs, signers) ==
    IF sigs = <<>> THEN FALSE
    ELSE \/ Head(sigs).pubkey \in signers
         \/ HitsDuplicate(Tail(sigs), signers \cup {Head(sigs).pubkey})

\* C24: in every state the wallet reaches, no input of a draft holds two
\* signatures of one signer, also when the signer signs the input again after
\* resetSigners; so the duplicate test of verifyTransaction never fails.
C24_NoDuplicateContribution ==
    \A di \in AllInputs :
        LET sigs == drafts[di[1]].inputs[di[2]].partialSig
        IN /\ \A i, j \in 1..Len(sigs) : i # j => sigs[i].pubkey # sigs[j].pubkey
           /\ ~HitsDuplicate(sigs, {})

\* after a resetSigners a signer has signed a second input, and the call for
\* an input that holds the signer's signature returned false
C24_Witness ==
    /\ call.op = "signTransaction"
    /\ call.kind = "return"
    /\ call.value = "false"
    /\ call.idx < Len(drafts[call.d].inputs)
    /\ Len(drafts[call.d].inputs[call.idx + 1].partialSig) = 1
    /\ HasSigOf(drafts[call.d].inputs[call.idx + 1], call.signer)
    /\ Cardinality(SignedBy(call.signer)) = 2

-----------------------------------------------------------------------------
(* Claims about the key pairs of BrokenMultisigWallet *)

\* the address pair createMultisigAddresses makes of the first n key pairs
FirstAddresses ==
    CreateMultisigAddresses(
        [bw EXCEPT !.keyPairs = SubSeq(bw.keyPairs, 1, bw.totalSigners)]).addresses

\* C25: once a generateWallet call has completed, the wallet holds exactly n
\* key pairs (mnemonics, paths, public keys), the path of signer i is the
\* derivation prefix followed by /i, and getAddresses returns one and the
\* same address pair, that of the n key pairs; also after further calls, a
\* second generateWallet among them.
C25_ExactlyNKeyPairs ==
    bw.generated >= 1 =>
        /\ Len(bw.keyPairs) = bw.totalSigners
        /\ \A i \in 1..Len(bw.keyPairs) :
              bw.keyPairs[i].path = ChildPath(bw.derivationPath, i - 1)
        /\ bw.addresses = FirstAddresses
        /\ call.op = "getAddresses" =>
              (call.kind = "return" /\ call.addresses = FirstAddresses)

=============================================================================
